---- MODULE Spec2Model ----
(***************************************************************************)
(* Grocery Management API (src/main.py): the products and transactions     *)
(* tables of the SQLite database and the request handlers that read and    *)
(* write them.  Handlers are plain `def` routes, so FastAPI runs them on   *)
(* a thread pool: several requests are in flight at once, each with its    *)
(* own SQLAlchemy session (get_db).  A session's SELECT reads the          *)
(* committed tables; its writes reach the tables at db.commit(), inside    *)
(* one database transaction; SQLite admits one writer at a time.           *)
(*                                                                         *)
(* category, price and description are left out of the product row: the    *)
(* handlers copy them from the payload exactly as they copy stock, and     *)
(* nothing reads them.  Money is counted in cents.                         *)
(***************************************************************************)
EXTENDS Integers, Sequences, FiniteSets, TLC

VARIABLES
    products,      \* table products: id -> row
    transactions,  \* table transactions: id -> row
    clock,         \* the last value datetime.utcnow() returned
    pc,            \* per request slot: where its handler stands
    req,           \* per request slot: the payload and the session's pending state
    writer,        \* the request holding SQLite's write lock, or NoWriter
    ops,           \* requests accepted so far
    stale,         \* history: per purchase() in flight, the applies committed on
                   \* its product since it read the product
    last           \* history: the request answered last: its route and status,
                   \* the name its session held, for an apply that committed
                   \* what it did, for a list the ids in the order returned

vars == <<products, transactions, clock, pc, req, writer, ops, stale, last>>

----------------------------------------------------------------------------
\* Bounds of the model

MaxOps == 2
MaxTime == 1

Requests == {"r1", "r2"}
ProductIds == {1, 2}
NoWriter == "none"

\* Optional[...] values
None == <<>>
Some(x) == <<x>>
IsNone(o) == o = <<>>
Val(o) == o[1]

\* A request slot with no request: every attribute a payload or a session
\* holds, blank.  Records list their fields in this order throughout.
\* For an update, name and stock become the session's pending changes once the
\* handler has set them, and payload_stock stays what the payload gave.
NoReq ==
    [op |-> "none", product_id |-> 0, name |-> None, type |-> "none",
     quantity |-> 0, unit_price |-> 0, note |-> None, stock |-> None,
     read_stock |-> 0, cascade |-> {}, created_at |-> 0, updated_at |-> 0,
     payload_stock |-> None]

\* No request answered yet
NoLast ==
    [op |-> "none", product_id |-> 0, name |-> None, type |-> "none",
     quantity |-> 0, read_stock |-> 0, status |-> "none", stock0 |-> 0,
     count0 |-> 0, listing |-> <<>>]

\* Request inputs
RawNames == {<<"a">>, <<"b">>, <<" ", "a", " ">>}
Types == {"purchase", "sale", "refund"}
Quantities == {0, 1, 2}
Stocks == {-1, 0, 1}
\* unit_price and note are copied into the new row side by side: one pair for
\* each note
Extras ==
    {[unit_price |-> 150, note |-> None], [unit_price |-> 275, note |-> Some("n")]}

----------------------------------------------------------------------------
\* Helpers

Max(S) == CHOOSE x \in S : \A y \in S : y <= x

\* datetime.utcnow(): the clock never runs backwards
Times(t) == {u \in {t, t + 1} : u <= MaxTime}

RECURSIVE LStrip(_)
LStrip(s) == IF s # <<>> /\ Head(s) = " " THEN LStrip(Tail(s)) ELSE s

RECURSIVE RStrip(_)
RStrip(s) ==
    IF s # <<>> /\ s[Len(s)] = " " THEN RStrip(SubSeq(s, 1, Len(s) - 1)) ELSE s

\* Mutant: the name is stored as given
Strip_identity(s) == s

\* str.strip()
Strip(s) == RStrip(LStrip(s))

\* Mutant: a new row takes the largest rowid in use
NewId_reuses(table) == IF DOMAIN table = {} THEN 1 ELSE Max(DOMAIN table)

\* INTEGER PRIMARY KEY: SQLite gives a new row the largest rowid plus one
NewId(table) == IF DOMAIN table = {} THEN 1 ELSE Max(DOMAIN table) + 1

\* Mutant: a name column without the unique index
NameTaken_never(name, id) == FALSE

\* products.name is unique=True: another row already holds the name
NameTaken(name, id) ==
    \E p \in DOMAIN products : p # id /\ products[p].name = name

\* ProductCreate: name min_length=1, stock ge=0
ValidProductCreate(name, stock) == Len(name) >= 1 /\ stock >= 0

\* ProductUpdate: every field optional, stock ge=0 when given
ValidProductUpdate(name, stock) ==
    /\ IsNone(name) \/ Len(Val(name)) >= 1
    /\ IsNone(stock) \/ Val(stock) >= 0

\* TransactionCreate: quantity is a PositiveInt; type is any str
ValidTransactionCreate(quantity) == quantity > 0

ValidType(type) == type \in {"purchase", "sale"}

\* Mutants of the stock guard: no guard; a guard that also refuses to sell the
\* last unit
InsufficientStock_unchecked(type, stock, qty) == FALSE

InsufficientStock_strict(type, stock, qty) == type = "sale" /\ stock <= qty

InsufficientStock(type, stock, qty) == type = "sale" /\ stock < qty

\* Mutant: a sale adds to the stock too
AdjustStock_adds(type, stock, qty) == stock + qty

AdjustStock(type, stock, qty) ==
    IF type = "purchase" THEN stock + qty ELSE stock - qty

\* relationship(cascade="all, delete-orphan"): db.delete(product) loads the
\* product's transactions into the session and marks them deleted with it
CascadeTargets(pid) ==
    {t \in DOMAIN transactions : transactions[t].product_id = pid}

Restrict(f, S) == [x \in S |-> f[x]]

Extend(f, k, v) == [x \in DOMAIN f \cup {k} |-> IF x = k THEN v ELSE f[x]]

Respond(r, op, status) ==
    /\ last' = [NoLast EXCEPT !.op = op, !.name = req[r].name,
                              !.status = status]
    /\ pc' = [pc EXCEPT ![r] = "idle"]
    /\ req' = [req EXCEPT ![r] = NoReq]
    /\ stale' = [stale EXCEPT ![r] = {}]

\* A request that changed nothing and was answered at once
Reject(r, op, status) ==
    /\ Respond(r, op, status)
    /\ UNCHANGED <<products, transactions, clock, writer>>

LockFree == writer = NoWriter

----------------------------------------------------------------------------
\* The database file as earlier requests left it: products "a" and "b" created
\* by POST /api/products in that order (or only "a", or none).  "a" was created
\* with stock 0 or 1, or with 0 and one unit purchased since; "b" with 0 and
\* one unit purchased since.
Catalogue(n, stock, bought, t) ==
    [i \in 1..n |->
        [name |-> IF i = 1 THEN <<"a">> ELSE <<"b">>, stock |-> stock[i],
         created_at |-> t, updated_at |-> t]]

Ledger(n, bought, t) ==
    LET owners == {i \in 1..n : bought[i]}
    IN  [k \in 1..Cardinality(owners) |->
            [product_id |-> IF 1 \in owners /\ k = 1 THEN 1 ELSE 2,
             type |-> "purchase", quantity |-> 1, unit_price |-> 150,
             note |-> None, created_at |-> t]]

InitDb(t) ==
    /\ \E n \in 0..2 :
       \E stock \in [1..n -> {0, 1}], bought \in [1..n -> BOOLEAN] :
        /\ \A i \in 1..n : bought[i] => stock[i] >= 1
        /\ n = 2 => bought[2]
        /\ products = Catalogue(n, stock, bought, t)
        /\ transactions = Ledger(n, bought, t)
    /\ clock = t

Init ==
    /\ InitDb(MaxTime)
    /\ pc = [r \in Requests |-> "idle"]
    /\ req = [r \in Requests |-> NoReq]
    /\ writer = NoWriter
    /\ ops = 0
    /\ stale = [r \in Requests |-> {}]
    /\ last = NoLast

----------------------------------------------------------------------------
\* A request arrives on a free worker thread: FastAPI parses the body into the
\* route's schema and calls the handler.  Arriving changes nothing another
\* request reads, so it is scheduled right before the handler's first step: no
\* second request arrives while one waits for its handler to start.

Arrived == {"create_product", "update_product", "delete_product", "purchase"}

Receive(r, op, payload) ==
    /\ pc[r] = "idle"
    /\ \A o \in Requests : pc[o] \notin Arrived
    /\ ops < MaxOps
    /\ ops' = ops + 1
    /\ pc' = [pc EXCEPT ![r] = op]
    /\ req' = [req EXCEPT ![r] = payload]
    /\ UNCHANGED <<products, transactions, clock, writer, stale, last>>

post_products(r) ==
    \E name \in RawNames, stock \in Stocks :
        Receive(r, "create_product",
                [NoReq EXCEPT !.op = "create", !.name = name, !.stock = stock])

put_products(r) ==
    \E id \in ProductIds, name \in {None} \cup {Some(n) : n \in RawNames},
       stock \in {None} \cup {Some(s) : s \in Stocks} :
        Receive(r, "update_product",
                [NoReq EXCEPT !.op = "update", !.product_id = id,
                              !.name = name, !.stock = stock,
                              !.payload_stock = stock])

delete_products(r) ==
    \E id \in ProductIds :
        Receive(r, "delete_product",
                [NoReq EXCEPT !.op = "delete", !.product_id = id])

post_purchase(r) ==
    \E id \in ProductIds, type \in Types, qty \in Quantities, x \in Extras :
        Receive(r, "purchase",
                [NoReq EXCEPT !.op = "purchase", !.product_id = id,
                              !.type = type, !.quantity = qty,
                              !.unit_price = x.unit_price, !.note = x.note])

----------------------------------------------------------------------------
\* POST /api/products

create_product(r) ==
    /\ pc[r] = "create_product"
    /\ LET p == req[r]
           name == Strip(p.name)
           id == NewId(products)
       IN  IF ~ValidProductCreate(p.name, p.stock)
           THEN Reject(r, "create", "ValidationError")
           ELSE /\ LockFree
                /\ IF NameTaken(name, 0)
                   THEN Reject(r, "create", "DuplicateName")
                   ELSE /\ id \in ProductIds
                        /\ \E t1 \in Times(clock) : \E t2 \in Times(t1) :
                            /\ products' = Extend(products, id,
                                   [name |-> name, stock |-> p.stock,
                                    created_at |-> t1, updated_at |-> t2])
                            /\ clock' = t2
                        /\ Respond(r, "create", "ok")
                        /\ UNCHANGED <<transactions, writer>>
    /\ UNCHANGED ops

----------------------------------------------------------------------------
\* PUT /api/products/{product_id}

\* The value the flush writes for a column: SQLAlchemy's UPDATE names only the
\* attributes whose value differs from the one loaded
Changed(given, loaded) ==
    IF IsNone(given) \/ Val(given) = loaded THEN None ELSE given

update_product(r) ==
    /\ pc[r] = "update_product"
    /\ LET p == req[r]
           id == p.product_id
       IN  IF ~ValidProductUpdate(p.name, p.stock)
           THEN Reject(r, "update", "ValidationError")
           ELSE IF id \notin DOMAIN products
           THEN Reject(r, "update", "NotFound")
           ELSE \E t \in Times(clock) :
                /\ req' = [req EXCEPT ![r] =
                       [p EXCEPT
                        !.name = Changed(IF IsNone(p.name) THEN None
                                         ELSE Some(Strip(Val(p.name))),
                                         products[id].name),
                        !.stock = Changed(p.stock, products[id].stock),
                        !.updated_at = t]]
                /\ pc' = [pc EXCEPT ![r] = "update_commit"]
                /\ clock' = t
                /\ UNCHANGED <<products, transactions, writer, stale, last>>
    /\ UNCHANGED ops

\* The row after UPDATE products SET <changed columns>, updated_at WHERE id
UpdatedRow(row, s) ==
    [row EXCEPT !.name = IF IsNone(s.name) THEN @ ELSE Val(s.name),
                !.stock = IF IsNone(s.stock) THEN @ ELSE Val(s.stock),
                !.updated_at = s.updated_at]

\* Mutant: on a duplicate name the other columns of the UPDATE are kept
update_commit_partial(r) ==
    /\ pc[r] = "update_commit"
    /\ LockFree
    /\ LET s == req[r]
           id == s.product_id
       IN  IF id \notin DOMAIN products
           THEN Reject(r, "update", "ServerError")
           ELSE IF ~IsNone(s.name) /\ NameTaken(Val(s.name), id)
           THEN /\ products' = [products EXCEPT
                                   ![id] = UpdatedRow(@, [s EXCEPT !.name = None])]
                /\ Respond(r, "update", "DuplicateName")
                /\ UNCHANGED <<transactions, clock, writer>>
           ELSE /\ products' = [products EXCEPT ![id] = UpdatedRow(@, s)]
                /\ Respond(r, "update", "ok")
                /\ UNCHANGED <<transactions, clock, writer>>
    /\ UNCHANGED ops

update_commit(r) ==
    /\ pc[r] = "update_commit"
    /\ LockFree
    /\ LET s == req[r]
           id == s.product_id
       IN  IF id \notin DOMAIN products
           THEN Reject(r, "update", "ServerError")
           ELSE IF ~IsNone(s.name) /\ NameTaken(Val(s.name), id)
           THEN Reject(r, "update", "DuplicateName")
           ELSE /\ products' = [products EXCEPT ![id] = UpdatedRow(@, s)]
                /\ Respond(r, "update", "ok")
                /\ UNCHANGED <<transactions, clock, writer>>
    /\ UNCHANGED ops

----------------------------------------------------------------------------
\* DELETE /api/products/{product_id}

\* Mutant: deleting a missing product is answered ok
delete_product_silent(r) ==
    /\ pc[r] = "delete_product"
    /\ LET id == req[r].product_id
       IN  IF id \notin DOMAIN products
           THEN Reject(r, "delete", "ok")
           ELSE /\ req' = [req EXCEPT ![r].cascade = CascadeTargets(id)]
                /\ pc' = [pc EXCEPT ![r] = "delete_commit"]
                /\ UNCHANGED <<products, transactions, clock, writer,
                               stale, last>>
    /\ UNCHANGED ops

delete_product(r) ==
    /\ pc[r] = "delete_product"
    /\ LET id == req[r].product_id
       IN  IF id \notin DOMAIN products
           THEN Reject(r, "delete", "NotFound")
           ELSE /\ req' = [req EXCEPT ![r].cascade = CascadeTargets(id)]
                /\ pc' = [pc EXCEPT ![r] = "delete_commit"]
                /\ UNCHANGED <<products, transactions, clock, writer,
                               stale, last>>
    /\ UNCHANGED ops

delete_commit(r) ==
    /\ pc[r] = "delete_commit"
    /\ LockFree
    /\ LET s == req[r]
       IN  /\ transactions' =
                Restrict(transactions, DOMAIN transactions \ s.cascade)
           /\ products' = Restrict(products, DOMAIN products \ {s.product_id})
    /\ Respond(r, "delete", "ok")
    /\ UNCHANGED <<clock, writer, ops>>

----------------------------------------------------------------------------
\* POST /api/transactions/purchase

purchase(r) ==
    /\ pc[r] = "purchase"
    /\ LET p == req[r]
           id == p.product_id
       IN  IF ~ValidTransactionCreate(p.quantity)
           THEN Reject(r, "purchase", "ValidationError")
           ELSE IF ~ValidType(p.type)
           THEN Reject(r, "purchase", "InvalidKind")
           ELSE IF id \notin DOMAIN products
           THEN Reject(r, "purchase", "ProductNotFound")
           ELSE IF InsufficientStock(p.type, products[id].stock, p.quantity)
           THEN Reject(r, "purchase", "InsufficientStock")
           ELSE \E t1 \in Times(clock) : \E t2 \in Times(t1) :
                /\ req' = [req EXCEPT ![r] =
                       [p EXCEPT
                        !.stock = AdjustStock(p.type, products[id].stock,
                                              p.quantity),
                        !.read_stock = products[id].stock,
                        !.created_at = t2, !.updated_at = t1]]
                /\ pc' = [pc EXCEPT ![r] = "purchase_flush"]
                /\ clock' = t2
                /\ UNCHANGED <<products, transactions, writer, stale, last>>
    /\ UNCHANGED ops

\* The products table after UPDATE products SET stock, updated_at WHERE id
StockWritten(s) ==
    [products EXCEPT ![s.product_id].stock = s.stock,
                     ![s.product_id].updated_at = s.updated_at]

\* The transactions table after INSERT INTO transactions
TxInserted(s) ==
    Extend(transactions, NewId(transactions),
           [product_id |-> s.product_id, type |-> s.type,
            quantity |-> s.quantity, unit_price |-> s.unit_price,
            note |-> s.note, created_at |-> s.created_at])

\* Mutant: an autocommit session, whose UPDATE reaches the table at once
VisibleInFlush_autocommit(s) == StockWritten(s)

\* What the other connections read while the session's transaction is open:
\* sessionmaker(autocommit=False), so its UPDATE is not yet in the tables
VisibleInFlush(s) == products

\* db.commit() begins the flush: BEGIN, UPDATE products (StaleDataError when
\* the row is gone), INSERT INTO transactions; the write lock is now held
purchase_flush(r) ==
    /\ pc[r] = "purchase_flush"
    /\ LockFree
    /\ IF req[r].product_id \notin DOMAIN products
       THEN Reject(r, "purchase", "ServerError")
       ELSE /\ writer' = r
            /\ pc' = [pc EXCEPT ![r] = "purchase_commit"]
            /\ products' = VisibleInFlush(req[r])
            /\ UNCHANGED <<transactions, clock, req, stale, last>>
    /\ UNCHANGED ops

\* The applies on product id that are between their read and their commit
InFlightOn(r, id) ==
    {o \in Requests \ {r} :
        pc[o] \in {"purchase_flush", "purchase_commit"} /\ req[o].product_id = id}

\* COMMIT
purchase_commit(r) ==
    /\ pc[r] = "purchase_commit"
    /\ writer = r
    /\ LET s == req[r]
       IN  /\ products' = StockWritten(s)
           /\ transactions' = TxInserted(s)
           /\ pc' = [pc EXCEPT ![r] = "idle"]
           /\ req' = [req EXCEPT ![r] = NoReq]
           /\ stale' = [o \in Requests |->
                  IF o = r THEN {}
                  ELSE IF o \in InFlightOn(r, s.product_id)
                  THEN stale[o] \cup {[type |-> s.type, quantity |-> s.quantity,
                                       read_stock |-> s.read_stock]}
                  ELSE stale[o]]
           /\ last' = [op |-> "purchase", product_id |-> s.product_id,
                       name |-> None, type |-> s.type, quantity |-> s.quantity,
                       read_stock |-> s.read_stock, status |-> "ok",
                       stock0 |-> products[s.product_id].stock,
                       count0 |-> Cardinality(DOMAIN transactions),
                       listing |-> <<>>]
    /\ writer' = NoWriter
    /\ UNCHANGED <<clock, ops>>

\* Mutant: the session is closed without rolling the open transaction back
purchase_abort_norollback(r) ==
    /\ pc[r] \in {"purchase_flush", "purchase_commit"}
    /\ Respond(r, "purchase", "ServerError")
    /\ products' = IF writer = r THEN StockWritten(req[r]) ELSE products
    /\ writer' = IF writer = r THEN NoWriter ELSE writer
    /\ UNCHANGED <<transactions, clock, ops>>

\* An exception out of db.commit() (sqlite3.OperationalError: the database is
\* locked, the disk is full): get_db's finally closes the session, which rolls
\* the open transaction back
purchase_abort(r) ==
    /\ pc[r] \in {"purchase_flush", "purchase_commit"}
    /\ Respond(r, "purchase", "ServerError")
    /\ writer' = IF writer = r THEN NoWriter ELSE writer
    /\ UNCHANGED <<products, transactions, clock, ops>>

----------------------------------------------------------------------------
Next ==
    \E r \in Requests :
        \/ post_products(r)
        \/ put_products(r)
        \/ delete_products(r)
        \/ post_purchase(r)
        \/ create_product(r)
        \/ update_product(r)
        \/ update_commit(r)
        \/ delete_product(r)
        \/ delete_commit(r)
        \/ purchase(r)
        \/ purchase_flush(r)
        \/ purchase_commit(r)
        \/ purchase_abort(r)

Spec == Init /\ [][Next]_vars

\* The same service observed from a moment when one DELETE /api/products/{id}
\* has run db.delete(product) and not yet db.commit(): ops counts the requests
\* accepted after that moment
InitInFlight ==
    /\ InitDb(MaxTime)
    /\ \E id \in DOMAIN products :
        /\ pc = [r \in Requests |->
                    IF r = "r1" THEN "delete_commit" ELSE "idle"]
        /\ req = [r \in Requests |->
                    IF r = "r1"
                    THEN [NoReq EXCEPT !.op = "delete", !.product_id = id,
                                       !.cascade = CascadeTargets(id)]
                    ELSE NoReq]
    /\ writer = NoWriter
    /\ ops = 0
    /\ stale = [r \in Requests |-> {}]
    /\ last = NoLast

SpecInFlight == InitInFlight /\ [][Next]_vars

\* The same service when no client calls PUT /api/products/{product_id}: no
\* product's stock is ever set through update
NextNoUpdate ==
    \E r \in Requests :
        \/ post_products(r)
        \/ delete_products(r)
        \/ post_purchase(r)
        \/ create_product(r)
        \/ delete_product(r)
        \/ delete_commit(r)
        \/ purchase(r)
        \/ purchase_flush(r)
        \/ purchase_commit(r)
        \/ purchase_abort(r)

SpecNoUpdate == Init /\ [][NextNoUpdate]_vars

----------------------------------------------------------------------------
\* GET /api/products and GET /api/transactions

\* The row orders SELECT ... ORDER BY created_at DESC can return: created_at
\* never rises along the result, and rows with one created_at come in whatever
\* order the database produces them
Orderings(table) ==
    {l \in [1..Cardinality(DOMAIN table) -> DOMAIN table] :
        /\ \A i, j \in DOMAIN l : i # j => l[i] # l[j]
        /\ \A i, j \in DOMAIN l :
            i < j => table[l[i]].created_at >= table[l[j]].created_at}

\* A list handler is one SELECT and writes nothing
Listed(r, op, l) ==
    /\ pc[r] = "idle"
    /\ last' = [NoLast EXCEPT !.op = op, !.status = "ok", !.listing = l]
    /\ UNCHANGED <<products, transactions, clock, pc, req, writer, ops, stale>>

list_products(r) ==
    \E l \in Orderings(products) : Listed(r, "list_products", l)

list_transactions(r) ==
    \E l \in Orderings(transactions) : Listed(r, "list_transactions", l)

\* The same service with a running clock and with the two list routes
InitList ==
    /\ InitDb(0)
    /\ pc = [r \in Requests |-> "idle"]
    /\ req = [r \in Requests |-> NoReq]
    /\ writer = NoWriter
    /\ ops = 0
    /\ stale = [r \in Requests |-> {}]
    /\ last = NoLast

NextList ==
    \/ Next
    \/ \E r \in Requests : list_products(r) \/ list_transactions(r)

SpecList == InitList /\ [][NextList]_vars

----------------------------------------------------------------------------
\* Properties

ApplyPcs == {"purchase", "purchase_flush", "purchase_commit"}

\* The handler of request r takes this step
Steps(r) == pc'[r] # pc[r]

\* This step answers request r
Answers(r) == pc[r] # "idle" /\ pc'[r] = "idle"

Committed(r) == Answers(r) /\ last'.status = "ok"

TablesUnchanged == products' = products /\ transactions' = transactions

\* The rows this step adds to the transactions table
NewRows == {t \in DOMAIN transactions' :
               t \notin DOMAIN transactions \/ transactions'[t] # transactions[t]}

\* C1: apply is all-or-nothing in the tables every request reads: each step of
\* a purchase() handler either leaves products and transactions as they were,
\* or writes the handler's stock to its product and adds its ledger row in the
\* same step; this includes the steps that end the request in a failure.
C1_Step(r) ==
    LET s == req[r]
    IN  (pc[r] \in ApplyPcs /\ Steps(r)) =>
            \/ TablesUnchanged
            \/ /\ s.product_id \in DOMAIN products'
               /\ products'[s.product_id].stock = s.stock
               /\ products'[s.product_id].updated_at = s.updated_at
               /\ \E t \in NewRows :
                    /\ NewRows = {t}
                    /\ transactions'[t].product_id = s.product_id
                    /\ transactions'[t].type = s.type
                    /\ transactions'[t].quantity = s.quantity

C1_AllOrNothing == [][\A r \in Requests : C1_Step(r)]_vars

C1_Witness ==
    /\ last.op = "purchase" /\ last.status = "ok"
    /\ \E t \in DOMAIN transactions :
        /\ transactions[t].product_id = last.product_id
        /\ transactions[t].quantity = last.quantity
        /\ transactions[t].type = last.type

\* C2: the stock of every product is at least 0 in every reachable state.
C2_StockNonNegative == \A p \in DOMAIN products : products[p].stock >= 0

C2_Witness ==
    /\ last.op = "purchase" /\ last.status = "ok" /\ last.type = "sale"
    /\ last.product_id \in DOMAIN products
    /\ products[last.product_id].stock = 0

\* C3: a purchase() request that fails leaves products and transactions exactly
\* as they were: none of its steps writes to either table.
C3_Step(r) ==
    (pc[r] \in ApplyPcs /\ Steps(r) /\ ~Committed(r)) => TablesUnchanged

C4_Step(r) ==
    (pc[r] = "purchase_commit" /\ Committed(r) /\ req[r].type = "sale") =>
        \A o \in stale[r] :
            ~(/\ o.type = "sale"
              /\ o.read_stock < o.quantity + req[r].quantity
              /\ req[r].read_stock < o.quantity + req[r].quantity)

C4_NoDoubleSale == [][\A r \in Requests : C4_Step(r)]_vars

\* C5: a sale of more than the product's stock is answered InsufficientStock
\* and changes neither table; a sale of exactly the stock passes the guard.
C5_Step(r) ==
    LET p == req[r]
    IN  (/\ pc[r] = "purchase" /\ Steps(r)
         /\ p.quantity > 0 /\ p.type = "sale"
         /\ p.product_id \in DOMAIN products) =>
            /\ p.quantity > products[p.product_id].stock =>
                /\ pc'[r] = "idle"
                /\ last'.op = "purchase"
                /\ last'.status = "InsufficientStock"
                /\ TablesUnchanged
            /\ p.quantity = products[p.product_id].stock =>
                /\ pc'[r] = "purchase_flush"
                /\ req'[r].stock = 0

C5_InsufficientStockGuard == [][\A r \in Requests : C5_Step(r)]_vars

C5_Witness ==
    /\ last.op = "purchase" /\ last.status = "InsufficientStock"
    /\ \E r \in Requests :
        /\ pc[r] = "purchase_flush" /\ req[r].type = "sale"
        /\ req[r].quantity = req[r].read_stock

\* C6: a purchase() that commits changes its product's stock by exactly
\* +quantity (purchase) or -quantity (sale), adds exactly one ledger row, which
\* carries the payload's product id, type, quantity, unit price and note, and
\* leaves every other product as it was.
C6_Step(r) ==
    LET s == req[r]
        id == s.product_id
    IN  (pc[r] = "purchase_commit" /\ Committed(r)) =>
            /\ DOMAIN products' = DOMAIN products
            /\ products'[id].stock = products[id].stock +
                    (IF s.type = "purchase" THEN s.quantity ELSE 0 - s.quantity)
            /\ \A o \in DOMAIN products \ {id} : products'[o] = products[o]
            /\ \E t \in NewRows :
                /\ NewRows = {t}
                /\ DOMAIN transactions' = DOMAIN transactions \cup {t}
                /\ t \notin DOMAIN transactions
                /\ transactions'[t].product_id = id
                /\ transactions'[t].type = s.type
                /\ transactions'[t].quantity = s.quantity
                /\ transactions'[t].unit_price = s.unit_price
                /\ transactions'[t].note = s.note

C6_ExactEffect == [][\A r \in Requests : C6_Step(r)]_vars

\* C7: when the request answered last is a committed purchase of q units of a
\* product, which wrote over the stock it had read, and nothing was written
\* since, a sale of q units of that product passes every check of the handler,
\* and its commit leaves the stock at its value before the purchase and the
\* ledger two rows longer than before the purchase.
C7_Step(r) ==
    LET s == req[r]
        id == s.product_id
    IN  (/\ pc[r] \in {"purchase", "purchase_commit"} /\ Steps(r)
         /\ s.type = "sale" /\ stale[r] = {}
         /\ last.op = "purchase" /\ last.status = "ok"
         /\ last.type = "purchase" /\ last.read_stock = last.stock0
         /\ last.product_id = id /\ last.quantity = s.quantity) =>
            /\ pc[r] = "purchase" => pc'[r] = "purchase_flush"
            /\ (pc[r] = "purchase_commit" /\ Committed(r)) =>
                /\ products'[id].stock = last.stock0
                /\ Cardinality(DOMAIN transactions') = last.count0 + 2
                /\ DOMAIN transactions \subseteq DOMAIN transactions'

C7_PurchaseThenSale == [][\A r \in Requests : C7_Step(r)]_vars

C7_Witness ==
    /\ last.op = "purchase" /\ last.status = "ok" /\ last.type = "sale"
    /\ last.product_id \in DOMAIN products
    /\ products[last.product_id].stock = last.stock0 - last.quantity
    /\ \E t \in DOMAIN transactions :
        /\ t + 1 \in DOMAIN transactions /\ t + 2 \notin DOMAIN transactions
        /\ transactions[t].product_id = last.product_id
        /\ transactions[t].type = "purchase"
        /\ transactions[t].quantity = last.quantity
        /\ transactions[t].unit_price = 275
        /\ transactions[t + 1].product_id = last.product_id
        /\ transactions[t + 1].type = "sale"
        /\ transactions[t + 1].quantity = last.quantity
        /\ Cardinality(DOMAIN transactions) = last.count0 + 1

\* C8: a delete_product() that commits removes the product and every ledger
\* row of that product, and no row of another product.
C8_Step(r) ==
    LET id == req[r].product_id
    IN  (pc[r] = "delete_commit" /\ Committed(r)) =>
            /\ id \notin DOMAIN products'
            /\ \A t \in DOMAIN transactions' :
                transactions'[t].product_id # id
            /\ \A t \in DOMAIN transactions :
                transactions[t].product_id # id =>
                    /\ t \in DOMAIN transactions'
                    /\ transactions'[t] = transactions[t]

C8_CascadeDelete == [][\A r \in Requests : C8_Step(r)]_vars

\* C9: a well-formed create whose name is the name of a product in the table
\* is answered DuplicateName and leaves the products table as it was; no two
\* products ever hold the same name.
C9_Step(r) ==
    (/\ pc[r] = "create_product" /\ Steps(r)
     /\ req[r].stock >= 0
     /\ \E p \in DOMAIN products : products[p].name = req[r].name) =>
        /\ last'.op = "create" /\ last'.status = "DuplicateName"
        /\ products' = products

C9_NamesDistinct ==
    \A p, q \in DOMAIN products : p # q => products[p].name # products[q].name

C9_DuplicateName ==
    []C9_NamesDistinct /\ [][\A r \in Requests : C9_Step(r)]_vars

C9_Witness ==
    /\ last.op = "create" /\ last.status = "DuplicateName"
    /\ Cardinality(DOMAIN products) = 2

\* C10: an update whose new name is the name of another product in the table
\* is answered DuplicateName and leaves the products table as it was, whatever
\* else the payload gives; an update that names the product's own name writes
\* no name and commits whenever the row is still there.
C10_Step(r) ==
    LET s == req[r]
        id == s.product_id
    IN  /\ (/\ pc[r] = "update_commit" /\ Steps(r)
            /\ id \in DOMAIN products /\ ~IsNone(s.name)
            /\ \E p \in DOMAIN products \ {id} :
                    products[p].name = Val(s.name)) =>
                /\ last'.op = "update" /\ last'.status = "DuplicateName"
                /\ products' = products
        /\ (/\ pc[r] = "update_product" /\ Steps(r)
            /\ id \in DOMAIN products /\ ~IsNone(s.name)
            /\ IsNone(s.stock) \/ Val(s.stock) >= 0
            /\ Val(s.name) = products[id].name) =>
                /\ pc'[r] = "update_commit"
                /\ IsNone(req'[r].name)
        /\ (/\ pc[r] = "update_commit" /\ Steps(r)
            /\ id \in DOMAIN products /\ IsNone(s.name)) =>
                /\ Committed(r)
                /\ products'[id].name = products[id].name

C10_UpdateDuplicateName == [][\A r \in Requests : C10_Step(r)]_vars

C10_Witness ==
    /\ last.op = "update" /\ last.status = "DuplicateName"
    /\ Cardinality(DOMAIN products) = 2
    /\ \E p \in DOMAIN products : products[p].stock = 0

\* C11: the ledger is append-only.  No step of any handler (create, update,
\* apply, delete, list) changes a row of the transactions table that is still
\* there after the step; the set of rows changes only by the one row a
\* committing apply adds for its product, or by a committing delete removing
\* rows of the product it deletes.
C11_Step ==
    /\ \A t \in DOMAIN transactions \cap DOMAIN transactions' :
        transactions'[t] = transactions[t]
    /\ DOMAIN transactions' # DOMAIN transactions =>
        \E r \in Requests :
            \/ /\ pc[r] = "purchase_commit" /\ Committed(r)
               /\ \E t \in DOMAIN transactions' \ DOMAIN transactions :
                   /\ DOMAIN transactions' = DOMAIN transactions \cup {t}
                   /\ transactions'[t].product_id = req[r].product_id
            \/ /\ pc[r] = "delete_commit" /\ Committed(r)
               /\ DOMAIN transactions' \subseteq DOMAIN transactions
               /\ \A t \in DOMAIN transactions \ DOMAIN transactions' :
                   transactions[t].product_id = req[r].product_id

C11_AppendOnly == [][C11_Step]_vars

ListOps == {"list_products", "list_transactions"}

\* Row x of the table was created after row y: at a later created_at, or at
\* the same created_at and inserted later (a new row's id is above every id in
\* the table)
CreatedLater(table, x, y) ==
    \/ table[x].created_at > table[y].created_at
    \/ table[x].created_at = table[y].created_at /\ x > y

\* C12: every answer of list_products and of list_transactions is in
\* newest-created-first order: each row returned was created after every row
\* returned behind it, rows with one created_at included.
C12_Step ==
    (last' # last /\ last'.op \in ListOps) =>
        LET table == IF last'.op = "list_products" THEN products
                     ELSE transactions
            l == last'.listing
        IN  \A i, j \in DOMAIN l : i < j => CreatedLater(table, l[i], l[j])

C12_NewestFirst == [][C12_Step]_vars

\* C13: purchase() reports the first violated precondition in the order kind,
\* product, quantity, stock: a payload whose type is neither purchase nor sale
\* is answered InvalidKind whatever its product id and quantity, and a payload
\* of a valid type for a missing product is answered ProductNotFound whatever
\* its quantity.
C13_Step(r) ==
    LET p == req[r]
    IN  (pc[r] = "purchase" /\ Steps(r)) =>
            /\ ~ValidType(p.type) =>
                last'.op = "purchase" /\ last'.status = "InvalidKind"
            /\ (ValidType(p.type) /\ p.product_id \notin DOMAIN products) =>
                last'.op = "purchase" /\ last'.status = "ProductNotFound"

C13_ValidationOrder == [][\A r \in Requests : C13_Step(r)]_vars

\* C14: when a purchase() commits, the updated_at it leaves on the product and
\* the created_at of the ledger row it adds are the same timestamp.
C14_Step(r) ==
    (pc[r] = "purchase_commit" /\ Committed(r)) =>
        \A t \in NewRows :
            transactions'[t].created_at =
                products'[req[r].product_id].updated_at

C14_SingleTimestamp == [][\A r \in Requests : C14_Step(r)]_vars

\* C15: a well-formed update, and a delete, whose id is the id of no product
\* when the handler looks it up is answered NotFound and leaves products and
\* transactions as they were.
C15_Step(r) ==
    LET p == req[r]
    IN  /\ (/\ pc[r] = "update_product" /\ Steps(r)
            /\ ValidProductUpdate(p.name, p.stock)
            /\ p.product_id \notin DOMAIN products) =>
                /\ last'.op = "update" /\ last'.status = "NotFound"
                /\ TablesUnchanged
        /\ (/\ pc[r] = "delete_product" /\ Steps(r)
            /\ p.product_id \notin DOMAIN products) =>
                /\ last'.op = "delete" /\ last'.status = "NotFound"
                /\ TablesUnchanged

C15_NotFound == [][\A r \in Requests : C15_Step(r)]_vars

C15_Witness ==
    /\ last.op = "delete" /\ last.status = "NotFound"
    /\ DOMAIN products # {} /\ DOMAIN transactions # {}

\* C16: when an update_product() whose payload gives a stock commits, the
\* product's stock is the value given, the transactions table is as it was
\* and every other product is as it was.
C16_Step(r) ==
    LET s == req[r]
        id == s.product_id
    IN  (/\ pc[r] = "update_commit" /\ Committed(r)
         /\ ~IsNone(s.payload_stock)) =>
            /\ DOMAIN products' = DOMAIN products
            /\ products'[id].stock = Val(s.payload_stock)
            /\ Val(s.payload_stock) >= 0
            /\ transactions' = transactions
            /\ \A o \in DOMAIN products \ {id} : products'[o] = products[o]

C16_UpdateSetsStock == [][\A r \in Requests : C16_Step(r)]_vars

RECURSIVE NetQuantity(_, _, _)
\* The purchases minus the sales recorded for product pid in the rows ids
NetQuantity(table, pid, ids) ==
    IF ids = {} THEN 0
    ELSE LET t == CHOOSE x \in ids : TRUE
             q == IF table[t].product_id # pid THEN 0
                  ELSE IF table[t].type = "purchase" THEN table[t].quantity
                  ELSE 0 - table[t].quantity
         IN  q + NetQuantity(table, pid, ids \ {t})

\* C17: the stock is the stock given at creation plus the purchases minus the
\* sales recorded.  With no update in the system, the difference between a
\* product's stock and the net quantity of its ledger rows is the stock it was
\* created with, so no step changes that difference for a product that is
\* there before and after the step.
C17_Step ==
    \A p \in DOMAIN products \cap DOMAIN products' :
        products'[p].stock
            - NetQuantity(transactions', p, DOMAIN transactions')
        = products[p].stock - NetQuantity(transactions, p, DOMAIN transactions)

C17_StockIsLedgerSum == [][C17_Step]_vars

\* C18: in every reachable state every ledger row references a product that
\* is in the products table.
C18_NoOrphans ==
    \A t \in DOMAIN transactions :
        transactions[t].product_id \in DOMAIN products

\* The string raw is the string stored with spaces added before it, after it
\* or both
Padded(raw, stored) ==
    /\ raw # stored
    /\ \E i, j \in 1..Len(raw) :
        /\ SubSeq(raw, i, j) = stored
        /\ \A k \in 1..Len(raw) : (k < i \/ k > j) => raw[k] = " "

\* C19: names are trimmed before they are stored and before they are checked
\* for uniqueness.  No stored name begins or ends with a space; a well-formed
\* create whose name is a product's name with spaces around it is answered
\* DuplicateName and changes nothing; an update whose name is another
\* product's name with spaces around it stages that product's name, and its
\* commit is answered DuplicateName and changes nothing while that product
\* holds the name.
C19_Trimmed ==
    \A p \in DOMAIN products :
        LET n == products[p].name
        IN  n = <<>> \/ (Head(n) # " " /\ n[Len(n)] # " ")

C19_Step(r) ==
    LET s == req[r]
        id == s.product_id
    IN  /\ (/\ pc[r] = "create_product" /\ Steps(r)
            /\ s.stock >= 0
            /\ \E p \in DOMAIN products : Padded(s.name, products[p].name)) =>
                /\ last'.op = "create" /\ last'.status = "DuplicateName"
                /\ products' = products
        /\ (/\ pc[r] = "update_product" /\ Steps(r)
            /\ id \in DOMAIN products /\ ~IsNone(s.name)
            /\ IsNone(s.stock) \/ Val(s.stock) >= 0) =>
                \A p \in DOMAIN products \ {id} :
                    Padded(Val(s.name), products[p].name) =>
                        /\ pc'[r] = "update_commit"
                        /\ req'[r].name = Some(products[p].name)
        /\ (/\ pc[r] = "update_commit" /\ Steps(r)
            /\ id \in DOMAIN products /\ ~IsNone(s.name)
            /\ \E p \in DOMAIN products \ {id} :
                    products[p].name = Val(s.name)) =>
                /\ last'.status = "DuplicateName"
                /\ products' = products

C19_TrimmedNames ==
    []C19_Trimmed /\ [][\A r \in Requests : C19_Step(r)]_vars

C19_Witness ==
    /\ last.op = "create" /\ last.status = "DuplicateName"
    /\ Padded(last.name, <<"a">>)
    /\ \E p \in DOMAIN products : products[p].name = <<"a">>

====
